---- MODULE Spec2Model ----
(***************************************************************************)
(* A model of record.py: the supervisor main(), the workers it starts      *)
(* (record_stream, monitor_disk_space, monitor_folders) and the oldest     *)
(* recording selection of the disk monitor.                                *)
(*                                                                         *)
(* Spec      the supervisor: config reading, the initial launches, the     *)
(*           wait/restart loop, worker exits and operator interrupts.      *)
(* SpecDisk  the recording tree: encoders opening and rolling segments,    *)
(*           and the ticks of monitor_disk_space.                          *)
(* SpecStart main up to its first wait, over many config files.            *)
(* SpecFolders  the ticks of monitor_folders against the clock.            *)
(* SpecRec   record_stream: the encoder child, SIGTERM and SIGINT.         *)
(***************************************************************************)
EXTENDS Naturals, Integers, Sequences, FiniteSets, TLC

VARIABLES
    config,     \* the lines of cameras.config, in file order
    lineNo,     \* number of lines fp.readline() has returned so far
    cameras,    \* main's dict cameras, as a sequence of <<name, url>> in insertion order
    camIdx,     \* position of the for loop of lines 213-216 in cameras.items()
    processes,  \* main's dict processes: sentinel -> identity string
    procs,      \* the OS process behind each sentinel of processes
    batch,      \* exited_sentinels still to be handled by the for loop of line 223
    supPc,      \* where main is
    exc,        \* the exception that ended main's work ("none" while there is none)
    exitCode,   \* exit code of the supervisor process, -1 while main runs
    encoders,   \* for each camera name, the number of its ffmpeg processes running
    sentinels,  \* processes.keys(): the keys of processes in insertion order
    now,        \* the local clock, in segment lengths since the first day
    files,      \* the .mp4 files under RECORDING_PATH, in the order glob lists them
    writing,    \* for each camera, the segment its encoder has open (NoFile: none)
    avail,      \* the last reading of get_free_space
    removed,    \* the files os.remove was called on in the current disk monitor tick
    reaperPc,   \* where monitor_disk_space is
    clock,      \* the local date and time: [day, hour, minute]
    dirs,       \* the directories under RECORDING_PATH, by name
    rollerPc,   \* where monitor_folders is
    rec         \* for each camera, its record_stream worker and the encoder it started

supVars == <<config, lineNo, cameras, camIdx, processes, procs, batch, supPc, exc, exitCode,
             encoders, sentinels>>

diskVars == <<now, files, writing, avail, removed, reaperPc>>

folderVars == <<clock, dirs, rollerPc>>

recVars == <<rec>>

vars == <<config, lineNo, cameras, camIdx, processes, procs, batch, supPc, exc, exitCode,
          encoders, sentinels, now, files, writing, avail, removed, reaperPc, clock, dirs, rollerPc, rec>>

(***************************************************************************)
(* Config file text.  A line is a sequence of items: a run of whitespace   *)
(* " ", the character "#" opening a word, or a word.                       *)
(***************************************************************************)
Space == " "

Hash == "#"

RECURSIVE LStrip(_)
LStrip(line) ==
    IF line # <<>> /\ Head(line) = Space THEN LStrip(Tail(line)) ELSE line

RECURSIVE RStrip(_)
RStrip(line) ==
    IF line # <<>> /\ line[Len(line)] = Space
    THEN RStrip(SubSeq(line, 1, Len(line) - 1))
    ELSE line

\* str.strip() of line 201
Strip(line) == RStrip(LStrip(line))

\* str.split() of line 205: the words between runs of whitespace
Split(line) == SelectSeq(line, LAMBDA item : item # Space)

\* the test of line 203
IsComment(line) == Len(line) > 0 /\ line[1] = Hash

ConfigFiles ==
    { << <<"cam1", Space, "rtsp1">> >>,
      << <<Hash, "front", Space, "door">>, <<Space, "cam1", Space, "rtsp1", Space>>,
         <<"cam2", Space, "rtsp2">> >>,
      << <<"cam1", Space, "rtsp1">>, <<"monitor", Space, "rtsp2">> >>,
      << <<"monitor_disk_space", Space, "rtsp1">>, <<"cam1", Space, "rtsp2">> >>,
      << <<"cam1", Space, "rtsp1">>, <<"cam1", Space, "rtsp2">> >>,
      << <<"cam1", Space, "rtsp1">>, <<"cam2">> >> }

(***************************************************************************)
(* Python dicts with insertion order, as sequences of <<key, value>>.      *)
(***************************************************************************)
DictKeys(d) == { d[i][1] : i \in 1..Len(d) }

DictGet(d, k) == d[CHOOSE i \in 1..Len(d) : d[i][1] = k][2]

\* d[k] = v: an existing key keeps its place and gets the new value
DictSet(d, k, v) ==
    IF k \in DictKeys(d)
    THEN [i \in 1..Len(d) |-> IF d[i][1] = k THEN <<k, v>> ELSE d[i]]
    ELSE Append(d, <<k, v>>)

(***************************************************************************)
(* Processes.  multiprocessing.Process(target, args).start() gives a       *)
(* sentinel: a file descriptor, the lowest number free.  start() first     *)
(* drops the process objects of the workers that have ended, which closes  *)
(* their sentinels, so the numbers held are those of the workers running.  *)
(* A process record holds what the worker runs (target, name, url),        *)
(* whether it still runs (alive) and whether it has been sent SIGINT       *)
(* (sigint).                                                               *)
(***************************************************************************)
NoArg == "-"

MaxEncoders == 2

Process(target, name, url) ==
    [target |-> target, name |-> name, url |-> url, alive |-> TRUE, sigint |-> FALSE]

NewSentinel(held) ==
    CHOOSE s \in 1..(Cardinality(held) + 1) :
        /\ s \notin held
        /\ \A r \in 1..(s - 1) : r \in held

\* the mapping m with key s removed
Del(m, s) == [t \in DOMAIN m \ {s} |-> m[t]]

\* the mapping m with m[s] = v
Put(m, s, v) == [t \in DOMAIN m \cup {s} |-> IF t = s THEN v ELSE m[t]]

\* the keys in insertion order after del m[s]
DelKey(keys, s) == SelectSeq(keys, LAMBDA t : t # s)

\* the keys in insertion order after m[s] = v: a key already there keeps its place
PutKey(keys, s) == IF \E i \in 1..Len(keys) : keys[i] = s THEN keys ELSE Append(keys, s)

Live == { s \in DOMAIN procs : procs[s].alive }

\* the sentinels of processes that wait() finds ready
Exited == { s \in DOMAIN processes : ~procs[s].alive }

InLoop == supPc \in {"wait", "handle"}

(***************************************************************************)
(* The recording tree.  A file name is [dir, cam, stamp]: dir the          *)
(* directories of its path below RECORDING_PATH (RootDir: none; the date   *)
(* directory for a segment), stamp the FILE_DATE_FORMAT text of the name   *)
(* (NoStamp: the name has none).  Time is counted in segment lengths       *)
(* (RECORDING_LENGTH_S), SlotsPerDay of them to a day.                     *)
(***************************************************************************)
MIN_FREE_DISK_KB == 200000

\* oldest_timestamp of line 149, above every value mktime returns
OldestTimestampInit == 2000000000

MaxTime == 2

MaxFiles == 3

SlotsPerDay == 2

RootDir == <<>>

NoStamp == <<>>

\* no file name: None as oldest_filename, and an encoder with no segment open
NoFile == [dir |-> RootDir, cam |-> "", stamp |-> NoStamp]

DiskCams == {"cam1", "cam2"}

\* strftime with FOLDER_DATE_FORMAT and FILE_DATE_FORMAT (lines 25-26, 45, 66)
FolderDate(t) == t \div SlotsPerDay

FileDate(t) == <<t \div SlotsPerDay, t % SlotsPerDay>>

\* the file name template of line 45 at time t
SegmentName(name, t) == [dir |-> <<FolderDate(t)>>, cam |-> name, stamp |-> FileDate(t)]

\* time.mktime(datetime.strptime(date_str, FILE_DATE_FORMAT).timetuple()), line 154
MkTime(date_str) == date_str[1] * SlotsPerDay + date_str[2]

\* glob.glob('**/*.mp4') without recursive=True: the .mp4 files one directory down
Glob(fs) == SelectSeq(fs, LAMBDA f : Len(f.dir) = 1)

\* p.search(filename) of lines 147, 151: group(1), or NoStamp for the result None
Search(filename) == filename.stamp

RECURSIVE OldestLoopLastWins(_, _, _)
\* as if line 155 compared with <=
OldestLoopLastWins(listing, oldest_filename, oldest_timestamp) ==
    IF listing = <<>> THEN oldest_filename
    ELSE LET filename == Head(listing)
             result == Search(filename)
         IN  IF result # NoStamp /\ MkTime(result) <= oldest_timestamp
             THEN OldestLoopLastWins(Tail(listing), filename, MkTime(result))
             ELSE OldestLoopLastWins(Tail(listing), oldest_filename, oldest_timestamp)

RECURSIVE OldestLoop(_, _, _)
\* the for loop of lines 150-157 over the rest of the listing
OldestLoop(listing, oldest_filename, oldest_timestamp) ==
    IF listing = <<>> THEN oldest_filename
    ELSE LET filename == Head(listing)
             result == Search(filename)
         IN  IF result # NoStamp /\ MkTime(result) < oldest_timestamp
             THEN OldestLoop(Tail(listing), filename, MkTime(result))
             ELSE OldestLoop(Tail(listing), oldest_filename, oldest_timestamp)

\* lines 146-158
GetOldestRecording(fs) == OldestLoop(Glob(fs), NoFile, OldestTimestampInit)

\* os.remove(filename), line 167
Remove(fs, filename) == SelectSeq(fs, LAMBDA f : f # filename)

\* the readings of get_free_space (lines 37-42) around the threshold
AvailReadings == {MIN_FREE_DISK_KB - 1, MIN_FREE_DISK_KB, MIN_FREE_DISK_KB + 1}

Names(fs) == { fs[i] : i \in 1..Len(fs) }

\* fs with f put at position i
InsertAt(fs, i, f) == SubSeq(fs, 1, i - 1) \o <<f>> \o SubSeq(fs, i, Len(fs))

\* files found under RECORDING_PATH when the program starts: a recording of the
\* flat layout and a file that is no recording
OldFiles ==
    { [dir |-> RootDir, cam |-> "cam1", stamp |-> FileDate(0)],
      [dir |-> <<FolderDate(0)>>, cam |-> "notes", stamp |-> NoStamp] }

\* monitor_folders and the recorders before they have done anything
FolderIdle ==
    /\ clock = [day |-> 0, hour |-> 0, minute |-> 0]
    /\ dirs = {}
    /\ rollerPc = "run"

RecIdle ==
    rec = [c \in DiskCams |->
              [pc |-> "spawn", child |-> "none", sent |-> FALSE, cancelled |-> FALSE]]

DiskIdle ==
    /\ now = 0
    /\ files = <<>>
    /\ writing = [c \in DiskCams |-> NoFile]
    /\ avail = MIN_FREE_DISK_KB
    /\ removed = <<>>
    /\ reaperPc = "check"

(***************************************************************************)
(* main, lines 190-216: the config file and the initial launches           *)
(***************************************************************************)
Init ==
    /\ config \in ConfigFiles
    /\ lineNo = 0
    /\ cameras = <<>>
    /\ camIdx = 0
    /\ processes = <<>>
    /\ procs = <<>>
    /\ batch = <<>>
    /\ supPc = "config"
    /\ exc = "none"
    /\ exitCode = -1
    /\ encoders = <<>>
    /\ sentinels = <<>>
    /\ DiskIdle
    /\ FolderIdle
    /\ RecIdle

\* lines 198-200: readline returns '' at the end of the file
ReadEOF ==
    /\ supPc = "config"
    /\ lineNo = Len(config)
    /\ supPc' = "start_disk"
    /\ UNCHANGED <<config, lineNo, cameras, camIdx, processes, procs, batch, exc, exitCode>>
    /\ UNCHANGED <<encoders, sentinels>>
    /\ UNCHANGED diskVars
    /\ UNCHANGED <<folderVars, recVars>>

\* lines 198-204: a line whose first character after strip is '#'
ReadComment ==
    /\ supPc = "config"
    /\ lineNo < Len(config)
    /\ IsComment(Strip(config[lineNo + 1]))
    /\ lineNo' = lineNo + 1
    /\ UNCHANGED <<config, cameras, camIdx, processes, procs, batch, supPc, exc, exitCode>>
    /\ UNCHANGED <<encoders, sentinels>>
    /\ UNCHANGED diskVars
    /\ UNCHANGED <<folderVars, recVars>>

\* lines 198-206: name, url = line.split() with exactly two words
ReadCamera ==
    /\ supPc = "config"
    /\ lineNo < Len(config)
    /\ LET line == Strip(config[lineNo + 1])
           words == Split(line)
       IN  /\ ~IsComment(line)
           /\ Len(words) = 2
           /\ cameras' = DictSet(cameras, words[1], words[2])
    /\ lineNo' = lineNo + 1
    /\ UNCHANGED <<config, camIdx, processes, procs, batch, supPc, exc, exitCode>>
    /\ UNCHANGED <<encoders, sentinels>>
    /\ UNCHANGED diskVars
    /\ UNCHANGED <<folderVars, recVars>>

\* as if a line that does not unpack were skipped like a comment
ReadMalformedSkipped ==
    /\ supPc = "config"
    /\ lineNo < Len(config)
    /\ LET line == Strip(config[lineNo + 1])
       IN  /\ ~IsComment(line)
           /\ Len(Split(line)) # 2
    /\ lineNo' = lineNo + 1
    /\ UNCHANGED <<config, cameras, camIdx, processes, procs, batch, supPc, exc, exitCode>>
    /\ UNCHANGED <<encoders, sentinels>>
    /\ UNCHANGED diskVars
    /\ UNCHANGED <<folderVars, recVars>>

\* line 205: unpacking any other number of words raises ValueError, which nothing catches
ReadMalformed ==
    /\ supPc = "config"
    /\ lineNo < Len(config)
    /\ LET line == Strip(config[lineNo + 1])
       IN  /\ ~IsComment(line)
           /\ Len(Split(line)) # 2
    /\ lineNo' = lineNo + 1
    /\ supPc' = "done"
    /\ exc' = "ValueError"
    /\ exitCode' = 1
    /\ UNCHANGED <<config, cameras, camIdx, processes, procs, batch>>
    /\ UNCHANGED <<encoders, sentinels>>
    /\ UNCHANGED diskVars
    /\ UNCHANGED <<folderVars, recVars>>

\* the number of ffmpeg processes running for camera name
Running(enc, name) == IF name \in DOMAIN enc THEN enc[name] ELSE 0

\* p = Process(...); p.start(); processes[p.sentinel] = identity, with registered and
\* keys the mapping and its key order before.  The new sentinel may be a number that
\* a worker which has ended held, still a key of processes or not.  A record_stream
\* worker starts its ffmpeg (line 77) as it starts.
Launch(registered, keys, target, name, url, identity) ==
    LET s == NewSentinel(Live)
        running == [t \in Live \cup DOMAIN registered |-> procs[t]]
    IN  /\ processes' = Put(registered, s, identity)
        /\ sentinels' = PutKey(keys, s)
        /\ procs' = Put(running, s, Process(target, name, url))
        /\ encoders' = IF target = "record_stream"
                       THEN Put(encoders, name, Running(encoders, name) + 1)
                       ELSE encoders

\* lines 207-209
StartDiskMonitor ==
    /\ supPc = "start_disk"
    /\ Launch(processes, sentinels, "monitor_disk_space", NoArg, NoArg, "monitor_disk_space")
    /\ supPc' = "start_folders"
    /\ UNCHANGED <<config, lineNo, cameras, camIdx, batch, exc, exitCode>>
    /\ UNCHANGED diskVars
    /\ UNCHANGED <<folderVars, recVars>>

\* lines 210-212
StartFolderMonitor ==
    /\ supPc = "start_folders"
    /\ Launch(processes, sentinels, "monitor_folders", NoArg, NoArg, "monitor_folders")
    /\ supPc' = "start_cameras"
    /\ UNCHANGED <<config, lineNo, cameras, camIdx, batch, exc, exitCode>>
    /\ UNCHANGED diskVars
    /\ UNCHANGED <<folderVars, recVars>>

\* lines 213-216, one iteration
StartCamera ==
    /\ supPc = "start_cameras"
    /\ camIdx < Len(cameras)
    /\ LET name == cameras[camIdx + 1][1]
           url == cameras[camIdx + 1][2]
       IN  Launch(processes, sentinels, "record_stream", name, url, name)
    /\ camIdx' = camIdx + 1
    /\ UNCHANGED <<config, lineNo, cameras, batch, supPc, exc, exitCode>>
    /\ UNCHANGED diskVars
    /\ UNCHANGED <<folderVars, recVars>>

\* line 213 with cameras.items() exhausted, lines 218-221
EnterLoop ==
    /\ supPc = "start_cameras"
    /\ camIdx = Len(cameras)
    /\ supPc' = "wait"
    /\ UNCHANGED <<config, lineNo, cameras, camIdx, processes, procs, batch, exc, exitCode>>
    /\ UNCHANGED <<encoders, sentinels>>
    /\ UNCHANGED diskVars
    /\ UNCHANGED <<folderVars, recVars>>

(***************************************************************************)
(* main, lines 218-240: the wait/restart loop                              *)
(***************************************************************************)
RECURSIVE Orders(_)
\* every sequence that lists the elements of S once: the orders in which the file
\* system may list a set of files to glob (line 150)
Orders(S) ==
    IF S = {} THEN { <<>> }
    ELSE UNION { { <<s>> \o rest : rest \in Orders(S \ {s}) } : s \in S }

\* lines 221-222: wait returns once a sentinel is ready, with all that are ready, in
\* the order of processes.keys()
Wait ==
    /\ supPc = "wait"
    /\ Exited # {}
    /\ batch' = SelectSeq(sentinels, LAMBDA s : s \in Exited)
    /\ supPc' = "handle"
    /\ UNCHANGED <<config, lineNo, cameras, camIdx, processes, procs, exc, exitCode>>
    /\ UNCHANGED <<encoders, sentinels>>
    /\ UNCHANGED diskVars
    /\ UNCHANGED <<folderVars, recVars>>

\* the for loop of line 223 moves on, or line 220 when the batch is done
NextSentinel ==
    /\ batch' = Tail(batch)
    /\ supPc' = IF Tail(batch) = <<>> THEN "wait" ELSE "handle"

\* lines 224-228
RestartDiskMonitor ==
    /\ supPc = "handle"
    /\ LET sentinel == Head(batch)
       IN  /\ processes[sentinel] = "monitor_disk_space"
           /\ Launch(Del(processes, sentinel), DelKey(sentinels, sentinel),
                     "monitor_disk_space", NoArg, NoArg, "monitor")
    /\ NextSentinel
    /\ UNCHANGED <<config, lineNo, cameras, camIdx, exc, exitCode>>
    /\ UNCHANGED diskVars
    /\ UNCHANGED <<folderVars, recVars>>

\* lines 229-233
RestartFolderMonitor ==
    /\ supPc = "handle"
    /\ LET sentinel == Head(batch)
       IN  /\ processes[sentinel] # "monitor_disk_space"
           /\ processes[sentinel] = "monitor_folders"
           /\ Launch(Del(processes, sentinel), DelKey(sentinels, sentinel),
                     "monitor_folders", NoArg, NoArg, "monitor")
    /\ NextSentinel
    /\ UNCHANGED <<config, lineNo, cameras, camIdx, exc, exitCode>>
    /\ UNCHANGED diskVars
    /\ UNCHANGED <<folderVars, recVars>>

\* lines 234-240, with name a key of cameras
RestartCamera ==
    /\ supPc = "handle"
    /\ LET sentinel == Head(batch)
           name == processes[sentinel]
       IN  /\ name \notin {"monitor_disk_space", "monitor_folders"}
           /\ name \in DictKeys(cameras)
           /\ Launch(Del(processes, sentinel), DelKey(sentinels, sentinel),
                     "record_stream", name, DictGet(cameras, name), name)
    /\ NextSentinel
    /\ UNCHANGED <<config, lineNo, cameras, camIdx, exc, exitCode>>
    /\ UNCHANGED diskVars
    /\ UNCHANGED <<folderVars, recVars>>

\* lines 234-237, with name no key of cameras: cameras[name] raises KeyError after
\* the del of line 236; lines 241-245 do not catch it
RestartKeyError ==
    /\ supPc = "handle"
    /\ LET sentinel == Head(batch)
           name == processes[sentinel]
       IN  /\ name \notin {"monitor_disk_space", "monitor_folders"}
           /\ name \notin DictKeys(cameras)
           /\ processes' = Del(processes, sentinel)
           /\ sentinels' = DelKey(sentinels, sentinel)
           /\ procs' = IF procs[sentinel].alive THEN procs ELSE Del(procs, sentinel)
    /\ supPc' = "done"
    /\ exc' = "KeyError"
    /\ exitCode' = 1
    /\ UNCHANGED <<config, lineNo, cameras, camIdx, batch>>
    /\ UNCHANGED encoders
    /\ UNCHANGED diskVars
    /\ UNCHANGED <<folderVars, recVars>>

(***************************************************************************)
(* SIGINT in the supervisor: KeyboardInterrupt is raised in main.  The try *)
(* of line 218 covers the loop only (lines 241-245).                       *)
(***************************************************************************)
\* as if the except of line 241 were inside the while loop: the loop goes on
KeyboardInterruptContinues ==
    /\ supPc # "done"
    /\ exc' = "KeyboardInterrupt"
    /\ supPc' = IF InLoop THEN supPc ELSE "done"
    /\ exitCode' = IF InLoop THEN exitCode ELSE 1

KeyboardInterruptInMain ==
    /\ supPc # "done"
    /\ exc' = "KeyboardInterrupt"
    /\ supPc' = "done"
    /\ exitCode' = IF InLoop THEN 0 ELSE 1

\* SIGINT sent to the supervisor process alone (kill -INT pid)
InterruptSupervisor ==
    /\ KeyboardInterruptInMain
    /\ UNCHANGED <<config, lineNo, cameras, camIdx, processes, procs, batch>>
    /\ UNCHANGED <<encoders, sentinels>>
    /\ UNCHANGED diskVars
    /\ UNCHANGED <<folderVars, recVars>>

\* Ctrl-C at the terminal: SIGINT to the foreground process group, which holds the
\* supervisor and its worker processes
InterruptTerminal ==
    /\ KeyboardInterruptInMain
    /\ procs' = [s \in DOMAIN procs |->
                    IF procs[s].alive THEN [procs[s] EXCEPT !.sigint = TRUE] ELSE procs[s]]
    /\ UNCHANGED <<config, lineNo, cameras, camIdx, processes, batch>>
    /\ UNCHANGED <<encoders, sentinels>>
    /\ UNCHANGED diskVars
    /\ UNCHANGED <<folderVars, recVars>>

(***************************************************************************)
(* A worker process ends: record_stream after its encoder exited (lines    *)
(* 117-127), any worker on KeyboardInterrupt (lines 123, 141, 169), on an  *)
(* uncaught exception or killed.                                           *)
(***************************************************************************)
WorkerExit ==
    \E s \in Live :
        /\ \A n \in DOMAIN encoders : encoders[n] < MaxEncoders
        /\ procs' = [procs EXCEPT ![s].alive = FALSE]
        /\ UNCHANGED <<config, lineNo, cameras, camIdx, processes, batch, supPc, exc, exitCode>>
        /\ UNCHANGED <<encoders, sentinels>>
        /\ UNCHANGED diskVars
        /\ UNCHANGED <<folderVars, recVars>>

\* an ffmpeg process ends: the encoder fails or loses its stream, or has closed its
\* segment after the SIGINT of line 84 or 125.  Its worker sees it at line 118.
FfmpegExit ==
    \E n \in DOMAIN encoders :
        /\ encoders[n] > 0
        /\ encoders' = [encoders EXCEPT ![n] = encoders[n] - 1]
        /\ UNCHANGED <<config, lineNo, cameras, camIdx, processes, procs, batch, supPc, exc,
                       exitCode, sentinels>>
        /\ UNCHANGED diskVars
        /\ UNCHANGED <<folderVars, recVars>>

Next ==
    \/ ReadEOF
    \/ ReadComment
    \/ ReadCamera
    \/ ReadMalformed
    \/ StartDiskMonitor
    \/ StartFolderMonitor
    \/ StartCamera
    \/ EnterLoop
    \/ Wait
    \/ RestartDiskMonitor
    \/ RestartFolderMonitor
    \/ RestartCamera
    \/ RestartKeyError
    \/ InterruptSupervisor
    \/ InterruptTerminal
    \/ WorkerExit
    \/ FfmpegExit

Spec == Init /\ [][Next]_vars

(***************************************************************************)
(* SpecStart: main from the open of line 196 to the first wait, over every *)
(* config file of at most MaxLines lines taken from ConfigLines.           *)
(***************************************************************************)
MaxLines == 2

ConfigLines ==
    { <<"cam1", Space, "rtsp1">>,
      <<Space, "cam2", Space, "rtsp2", Space>>,
      <<"cam1", Space, "rtsp2">>,
      <<Hash, "cam3", Space, "rtsp3">>,
      <<Space, Hash>>,
      <<>>,
      <<Space>>,
      <<"cam3">>,
      <<"cam3", Space, "rtsp3", Space, "tcp">> }

RECURSIVE FilesOfLength(_)
FilesOfLength(n) ==
    IF n = 0 THEN { <<>> }
    ELSE { Append(f, l) : f \in FilesOfLength(n - 1), l \in ConfigLines }

InitStart ==
    /\ config \in UNION { FilesOfLength(n) : n \in 0..MaxLines }
    /\ lineNo = 0
    /\ cameras = <<>>
    /\ camIdx = 0
    /\ processes = <<>>
    /\ procs = <<>>
    /\ batch = <<>>
    /\ supPc = "config"
    /\ exc = "none"
    /\ exitCode = -1
    /\ encoders = <<>>
    /\ sentinels = <<>>
    /\ DiskIdle
    /\ FolderIdle
    /\ RecIdle

NextStart ==
    \/ ReadEOF
    \/ ReadComment
    \/ ReadCamera
    \/ ReadMalformed
    \/ StartDiskMonitor
    \/ StartFolderMonitor
    \/ StartCamera
    \/ EnterLoop
    \/ InterruptSupervisor

SpecStart == InitStart /\ [][NextStart]_vars

(***************************************************************************)
(* The encoders (ffmpeg of lines 47-68: -f segment, -strftime 1) and       *)
(* monitor_disk_space (lines 160-172)                                      *)
(***************************************************************************)
SupIdle ==
    /\ config = <<>>
    /\ lineNo = 0
    /\ cameras = <<>>
    /\ camIdx = 0
    /\ processes = <<>>
    /\ procs = <<>>
    /\ batch = <<>>
    /\ supPc = "config"
    /\ exc = "none"
    /\ exitCode = -1
    /\ encoders = <<>>
    /\ sentinels = <<>>

InitDisk ==
    /\ SupIdle
    /\ now = 0
    /\ \E old \in SUBSET OldFiles : files \in Orders(old)
    /\ writing = [c \in DiskCams |-> NoFile]
    /\ avail = MIN_FREE_DISK_KB
    /\ removed = <<>>
    /\ reaperPc = "check"
    /\ FolderIdle
    /\ RecIdle

ClockAdvance ==
    /\ now < MaxTime
    /\ now' = now + 1
    /\ UNCHANGED <<files, writing, avail, removed, reaperPc>>
    /\ UNCHANGED supVars
    /\ UNCHANGED <<folderVars, recVars>>

\* the encoder of camera c opens the segment named after the current time
OpenSegment(c) ==
    LET f == SegmentName(c, now)
    IN  /\ writing' = [writing EXCEPT ![c] = f]
        /\ IF f \in Names(files)
           THEN files' = files
           ELSE /\ Len(files) < MaxFiles
                /\ \E i \in 1..(Len(files) + 1) : files' = InsertAt(files, i, f)

\* an encoder starts writing (record_stream, line 77)
EncoderStart ==
    \E c \in DiskCams :
        /\ writing[c] = NoFile
        /\ OpenSegment(c)
        /\ UNCHANGED <<now, avail, removed, reaperPc>>
        /\ UNCHANGED supVars
        /\ UNCHANGED <<folderVars, recVars>>

\* -segment_time has passed: the encoder closes its segment and opens the next
EncoderRoll ==
    \E c \in DiskCams :
        /\ writing[c] # NoFile
        /\ MkTime(writing[c].stamp) < now
        /\ OpenSegment(c)
        /\ UNCHANGED <<now, avail, removed, reaperPc>>
        /\ UNCHANGED supVars
        /\ UNCHANGED <<folderVars, recVars>>

\* an encoder exits and closes its segment
EncoderExit ==
    \E c \in DiskCams :
        /\ writing[c] # NoFile
        /\ writing' = [writing EXCEPT ![c] = NoFile]
        /\ UNCHANGED <<now, files, avail, removed, reaperPc>>
        /\ UNCHANGED supVars
        /\ UNCHANGED <<folderVars, recVars>>

\* lines 163-164 and 168: enough free space
TickEnoughSpace ==
    /\ reaperPc = "check"
    /\ \E reading \in AvailReadings :
        /\ ~(reading < MIN_FREE_DISK_KB)
        /\ avail' = reading
    /\ removed' = <<>>
    /\ reaperPc' = "sleep"
    /\ UNCHANGED <<now, files, writing>>
    /\ UNCHANGED supVars
    /\ UNCHANGED <<folderVars, recVars>>

\* as if lines 165-167 were repeated until no recording is left
TickRemoveAll ==
    /\ reaperPc = "check"
    /\ \E reading \in AvailReadings :
        /\ reading < MIN_FREE_DISK_KB
        /\ avail' = reading
    /\ GetOldestRecording(files) # NoFile
    /\ files' = SelectSeq(files, LAMBDA f : Len(f.dir) # 1 \/ f.stamp = NoStamp)
    /\ removed' = SelectSeq(files, LAMBDA f : Len(f.dir) = 1 /\ f.stamp # NoStamp)
    /\ reaperPc' = "sleep"
    /\ UNCHANGED <<now, writing>>
    /\ UNCHANGED supVars
    /\ UNCHANGED <<folderVars, recVars>>

\* as if line 164 compared with <=
TickRemoveAtThreshold ==
    /\ reaperPc = "check"
    /\ \E reading \in AvailReadings :
        /\ reading <= MIN_FREE_DISK_KB
        /\ avail' = reading
    /\ LET oldest_filename == GetOldestRecording(files)
       IN  /\ oldest_filename # NoFile
           /\ files' = Remove(files, oldest_filename)
           /\ removed' = <<oldest_filename>>
    /\ reaperPc' = "sleep"
    /\ UNCHANGED <<now, writing>>
    /\ UNCHANGED supVars
    /\ UNCHANGED <<folderVars, recVars>>

\* lines 163-167: low space and get_oldest_recording returns a file name
TickRemoveOldest ==
    /\ reaperPc = "check"
    /\ \E reading \in AvailReadings :
        /\ reading < MIN_FREE_DISK_KB
        /\ avail' = reading
    /\ LET oldest_filename == GetOldestRecording(files)
       IN  /\ oldest_filename # NoFile
           /\ files' = Remove(files, oldest_filename)
           /\ removed' = <<oldest_filename>>
    /\ reaperPc' = "sleep"
    /\ UNCHANGED <<now, writing>>
    /\ UNCHANGED supVars
    /\ UNCHANGED <<folderVars, recVars>>

\* lines 163-166: low space and get_oldest_recording returns None; the string
\* concatenation of line 166 raises TypeError, which line 169 does not catch
TickNoRecording ==
    /\ reaperPc = "check"
    /\ \E reading \in AvailReadings :
        /\ reading < MIN_FREE_DISK_KB
        /\ avail' = reading
    /\ GetOldestRecording(files) = NoFile
    /\ removed' = <<>>
    /\ reaperPc' = "dead"
    /\ UNCHANGED <<now, files, writing>>
    /\ UNCHANGED supVars
    /\ UNCHANGED <<folderVars, recVars>>

\* line 168, then line 162
TickSleep ==
    /\ reaperPc = "sleep"
    /\ reaperPc' = "check"
    /\ removed' = <<>>
    /\ UNCHANGED <<now, files, writing, avail>>
    /\ UNCHANGED supVars
    /\ UNCHANGED <<folderVars, recVars>>

NextDisk ==
    \/ ClockAdvance
    \/ EncoderStart
    \/ EncoderRoll
    \/ EncoderExit
    \/ TickEnoughSpace
    \/ TickRemoveOldest
    \/ TickNoRecording
    \/ TickSleep

SpecDisk == InitDisk /\ [][NextDisk]_vars

(***************************************************************************)
(* monitor_folders (lines 129-144)                                         *)
(***************************************************************************)
MaxDay == 2

DaysPerMonth == 2

Hours == {0, 22, 23}

Minutes == {0, 54, 55, 59}

Clocks == [day : 0..MaxDay, hour : Hours, minute : Minutes]

\* strftime('%Y-%m-%d') of lines 133 and 138: the month and the day of the month
DateText(day) == <<(day \div DaysPerMonth) + 1, (day % DaysPerMonth) + 1>>

\* now + datetime.timedelta(days=1), line 137
NextDay(c) == [c EXCEPT !.day = c.day + 1]

\* pathlib.Path(name).mkdir(parents=True, exist_ok=True), lines 134 and 139
Mkdir(ds, name) == ds \cup {name}

\* as if line 135 tested now.minute > 55
LastMinutesLate(c) == c.hour = 23 /\ c.minute > 55

\* the test of line 135
LastMinutes(c) == c.hour = 23 /\ c.minute > 54

\* c is not later than d
NotAfter(c, d) ==
    \/ c.day < d.day
    \/ c.day = d.day /\ c.hour < d.hour
    \/ c.day = d.day /\ c.hour = d.hour /\ c.minute <= d.minute

InitFolders ==
    /\ SupIdle
    /\ DiskIdle
    /\ RecIdle
    /\ clock \in Clocks
    /\ dirs \in SUBSET { DateText(0), DateText(1) }
    /\ rollerPc = "run"

\* lines 132-139
FolderTick ==
    /\ rollerPc = "run"
    /\ LET now_ == clock
           today == Mkdir(dirs, DateText(now_.day))
       IN  dirs' = IF LastMinutes(now_)
                   THEN Mkdir(today, DateText(NextDay(now_).day))
                   ELSE today
    /\ rollerPc' = "sleep"
    /\ UNCHANGED clock
    /\ UNCHANGED <<supVars, diskVars, recVars>>

\* line 140, while the clock moves on
FolderSleep ==
    /\ rollerPc = "sleep"
    /\ \E later \in Clocks :
        /\ NotAfter(clock, later)
        /\ clock' = later
    /\ rollerPc' = "run"
    /\ UNCHANGED dirs
    /\ UNCHANGED <<supVars, diskVars, recVars>>

NextFolders ==
    \/ FolderTick
    \/ FolderSleep

SpecFolders == InitFolders /\ [][NextFolders]_vars

(***************************************************************************)
(* record_stream (lines 44-127), one worker per camera.  rec[c].pc:        *)
(* "spawn" before Popen returns (lines 69-77), "install" before the        *)
(* SIGTERM handler is set (lines 77-85), "poll" in the loop of lines       *)
(* 101-122, "done" once the process has ended.  child: the encoder;        *)
(* sent: SIGINT was sent to it; cancelled: the worker got a signal.        *)
(***************************************************************************)
InitRec ==
    /\ SupIdle
    /\ DiskIdle
    /\ FolderIdle
    /\ RecIdle

\* line 77: subprocess.Popen starts the encoder
RecPopen ==
    \E c \in DiskCams :
        /\ rec[c].pc = "spawn"
        /\ rec' = [rec EXCEPT ![c].pc = "install", ![c].child = "running"]
        /\ UNCHANGED <<supVars, diskVars, folderVars>>

\* lines 83-101: the handler is set, the reader threads start, the loop is entered
RecInstallHandler ==
    \E c \in DiskCams :
        /\ rec[c].pc = "install"
        /\ rec' = [rec EXCEPT ![c].pc = "poll"]
        /\ UNCHANGED <<supVars, diskVars, folderVars>>

\* the encoder exits, by itself or after the SIGINT sent to it
ChildExit ==
    \E c \in DiskCams :
        /\ rec[c].child = "running"
        /\ rec' = [rec EXCEPT ![c].child = "exited"]
        /\ UNCHANGED <<supVars, diskVars, folderVars>>

\* lines 117-119 and 126-127: p.wait returns, the loop and the worker end
RecWaitReturns ==
    \E c \in DiskCams :
        /\ rec[c].pc = "poll"
        /\ rec[c].child = "exited"
        /\ rec' = [rec EXCEPT ![c].pc = "done"]
        /\ UNCHANGED <<supVars, diskVars, folderVars>>

\* SIGTERM with sigterm_handler set (lines 83-85): SIGINT to the encoder, and the
\* loop goes on
RecSigtermHandled ==
    \E c \in DiskCams :
        /\ rec[c].pc = "poll"
        /\ rec' = [rec EXCEPT ![c].sent = TRUE, ![c].cancelled = TRUE]
        /\ UNCHANGED <<supVars, diskVars, folderVars>>

\* SIGTERM before line 85 has run: the default action ends the worker
RecSigtermDefault ==
    \E c \in DiskCams :
        /\ rec[c].pc \in {"spawn", "install"}
        /\ rec' = [rec EXCEPT ![c].pc = "done", ![c].cancelled = TRUE]
        /\ UNCHANGED <<supVars, diskVars, folderVars>>

\* KeyboardInterrupt with p set (lines 123-127): SIGINT to the encoder, then the
\* finally clause, and the worker returns
RecKeyboardInterrupt ==
    \E c \in DiskCams :
        /\ rec[c].pc \in {"install", "poll"}
        /\ rec' = [rec EXCEPT ![c].pc = "done", ![c].sent = TRUE, ![c].cancelled = TRUE]
        /\ UNCHANGED <<supVars, diskVars, folderVars>>

\* KeyboardInterrupt before Popen has returned: p is None (line 70) and line 125
\* raises AttributeError; the worker ends with no encoder started
RecKeyboardInterruptEarly ==
    \E c \in DiskCams :
        /\ rec[c].pc = "spawn"
        /\ rec' = [rec EXCEPT ![c].pc = "done", ![c].cancelled = TRUE]
        /\ UNCHANGED <<supVars, diskVars, folderVars>>

NextRec ==
    \/ RecPopen
    \/ RecInstallHandler
    \/ ChildExit
    \/ RecWaitReturns
    \/ RecSigtermHandled
    \/ RecSigtermDefault
    \/ RecKeyboardInterrupt
    \/ RecKeyboardInterruptEarly

SpecRec == InitRec /\ [][NextRec]_vars

(***************************************************************************)
(* Properties of the supervisor (Spec)                                     *)
(***************************************************************************)
\* what a worker process runs: its target and arguments
KindOf(p) == <<p.target, p.name, p.url>>

\* the workers main launches at startup (lines 207-216)
StartupKinds ==
    { <<"monitor_disk_space", NoArg, NoArg>>, <<"monitor_folders", NoArg, NoArg>> }
    \cup { <<"record_stream", cameras[i][1], cameras[i][2]>> : i \in 1..Len(cameras) }

RegisteredOf(k) == { s \in DOMAIN processes : KindOf(procs[s]) = k }

LiveOf(running, k) == { s \in DOMAIN running : running[s].alive /\ KindOf(running[s]) = k }

\* this step is the for loop of line 223 handling sentinel s
Handles(s) ==
    /\ supPc = "handle"
    /\ s = Head(batch)
    /\ (batch' = Tail(batch) \/ exc' = "KeyError")

\* C1: a camera worker that has exited is restarted by the supervisor: it is never
\* left exited with the supervisor stopped by anything but the operator's interrupt.
C1_CameraExitRestarted ==
    \A s \in DOMAIN procs :
        (procs[s].target = "record_stream" /\ ~procs[s].alive)
            => (supPc # "done" \/ exc = "KeyboardInterrupt")

\* C2: the step that handles the exit of a disk monitor or folder monitor worker
\* launches one more worker of that kind, and the supervisor stays in its loop.
C2_AuxExitRestarted ==
    [][\A s \in DOMAIN procs :
          (Handles(s) /\ procs[s].target \in {"monitor_disk_space", "monitor_folders"})
              => /\ Cardinality(LiveOf(procs', KindOf(procs[s])))
                        = Cardinality(LiveOf(procs, KindOf(procs[s]))) + 1
                 /\ InLoop']_vars

\* C3: the supervisor leaves its wait/restart loop only by the operator's interrupt.
C3_LoopEndsOnlyOnInterrupt ==
    [][(InLoop /\ ~InLoop') => exc' = "KeyboardInterrupt"]_vars

\* C4: while the supervisor is blocked in wait, processes holds exactly one worker of
\* each kind launched at startup, and no other worker.
C4_OneWorkerPerKind ==
    supPc = "wait" =>
        /\ \A k \in StartupKinds : Cardinality(RegisteredOf(k)) = 1
        /\ \A s \in DOMAIN processes : KindOf(procs[s]) \in StartupKinds

\* C5: once main has got the operator's interrupt, no step starts a worker.
C5_NoLaunchAfterInterrupt ==
    [][exc = "KeyboardInterrupt"
          => \A s \in DOMAIN procs' :
                 procs'[s].alive => (s \in DOMAIN procs /\ procs[s].alive)]_vars

\* C5 witness: interrupted in the loop, and a worker that got the terminal's SIGINT
\* has exited and is still registered, not restarted.
C5_Witness ==
    /\ exc = "KeyboardInterrupt"
    /\ exitCode = 0
    /\ \E s \in DOMAIN processes : procs[s].sigint /\ ~procs[s].alive

\* C6: when main has ended on the operator's interrupt, every worker still live has
\* been sent SIGINT.
C6_InterruptReachesWorkers ==
    (exc = "KeyboardInterrupt" /\ exitCode = 0) => \A s \in Live : procs[s].sigint

\* C7: an operator interrupt never ends the supervisor with a non-zero exit code.
C7_InterruptExitsZero ==
    exc = "KeyboardInterrupt" => exitCode = 0

(***************************************************************************)
(* Properties of the disk monitor (SpecDisk)                               *)
(***************************************************************************)
\* this step is one pass of lines 163-167
TickStep == reaperPc = "check" /\ reaperPc' # "check"

\* the positions in fs of the recordings <date>/<name>_<timestamp>.mp4
Recordings(fs) == { i \in 1..Len(fs) : Len(fs[i].dir) = 1 /\ fs[i].stamp # NoStamp }

\* the order of timestamps as written in file names: date first, then time of day
StampBefore(a, b) == a[1] < b[1] \/ (a[1] = b[1] /\ a[2] < b[2])

\* the first listed of the recordings with the earliest timestamp
Earliest(fs) ==
    CHOOSE i \in Recordings(fs) :
        \A j \in Recordings(fs) :
            /\ ~StampBefore(fs[j].stamp, fs[i].stamp)
            /\ (fs[j].stamp = fs[i].stamp => i <= j)

Without(fs, i) == SubSeq(fs, 1, i - 1) \o SubSeq(fs, i + 1, Len(fs))

\* C8: no step removes a file that an encoder has open.
C8_OpenSegmentKept ==
    [][\A c \in DiskCams :
          (writing[c] # NoFile /\ writing[c] \in Names(files))
              => writing[c] \in Names(files')]_vars

\* C9: a tick that reads low space while a recording exists removes the first listed
\* recording of the earliest timestamp and leaves every other file in place.
C9_OldestRemoved ==
    [][(TickStep /\ avail' < MIN_FREE_DISK_KB /\ Recordings(files) # {})
          => files' = Without(files, Earliest(files))]_vars

\* C9 witness: a tick has removed a recording while another recording of the same
\* timestamp stays.
C9_Witness ==
    /\ reaperPc = "sleep"
    /\ avail < MIN_FREE_DISK_KB
    /\ Len(removed) = 1
    /\ \E i \in Recordings(files) : files[i].stamp = removed[1].stamp

\* C10: one tick removes at most one file.
C10_OneFilePerTick ==
    [][TickStep => (Len(files') >= Len(files) - 1 /\ Len(removed') <= 1)]_vars

\* C10 witness: a tick that read low space has removed one file and left recordings.
C10_Witness ==
    /\ reaperPc = "sleep"
    /\ avail < MIN_FREE_DISK_KB
    /\ Len(removed) = 1
    /\ Cardinality(Recordings(files)) >= 2

\* C11: a file disappears only in a tick that read free space below
\* MIN_FREE_DISK_KB; a tick that read the threshold or more leaves files as they are.
C11_RemovesOnlyWhenLow ==
    [][/\ (TickStep /\ ~(avail' < MIN_FREE_DISK_KB)) => files' = files
       /\ (Names(files) \ Names(files') # {}) => (TickStep /\ avail' < MIN_FREE_DISK_KB)]_vars

\* C11 witness: a tick has read exactly the threshold with recordings on disk.
C11_Witness ==
    /\ reaperPc = "sleep"
    /\ avail = MIN_FREE_DISK_KB
    /\ Recordings(files) # {}

\* C12: a tick that reads low space while glob lists no recording removes nothing and
\* goes on to the sleep of line 168: monitor_disk_space keeps running.
C12_NoRecordingSkipsTick ==
    [][(TickStep /\ avail' < MIN_FREE_DISK_KB /\ Recordings(files) = {})
          => (files' = files /\ reaperPc' = "sleep")]_vars

(***************************************************************************)
(* Properties of startup (SpecStart).  The lines of cameras.config are     *)
(* read here as text, without the operators main is modelled with.         *)
(***************************************************************************)
WordPlaces(line) == { i \in 1..Len(line) : line[i] # Space }

\* the k-th word of the line
WordAt(line, k) ==
    line[CHOOSE i \in WordPlaces(line) :
            Cardinality({ j \in WordPlaces(line) : j < i }) = k - 1]

BlankLine(line) == WordPlaces(line) = {}

CommentLine(line) == ~BlankLine(line) /\ WordAt(line, 1) = Hash

CameraLine(line) ==
    ~BlankLine(line) /\ ~CommentLine(line) /\ Cardinality(WordPlaces(line)) = 2

\* the lines of the file that are camera lines
CameraLines(file) == { i \in 1..Len(file) : CameraLine(file[i]) }

UniqueNames(file) ==
    \A i, j \in CameraLines(file) : WordAt(file[i], 1) = WordAt(file[j], 1) => i = j

LaunchedKinds == { KindOf(procs[s]) : s \in DOMAIN procs }

\* C13: with the same camera name on two lines of the config file, no worker is
\* launched and the process exits non-zero.
C13_DuplicateNameFails ==
    (\A i \in 1..Len(config) : CameraLine(config[i]) \/ CommentLine(config[i]))
    /\ ~UniqueNames(config)
        => (DOMAIN procs = {} /\ exitCode # 0)

\* C14: with a non-comment line of one word, or of three or more, anywhere in the
\* config file, no worker is launched and main ends only with a non-zero exit code.
C14_MalformedLineFails ==
    (\E i \in 1..Len(config) :
        /\ ~BlankLine(config[i])
        /\ ~CommentLine(config[i])
        /\ Cardinality(WordPlaces(config[i])) # 2)
        => /\ DOMAIN procs = {}
           /\ supPc \in {"config", "done"}
           /\ supPc = "done" => exitCode = 1

\* C14 witness: main has ended with ValueError on a malformed line that follows a
\* camera line.
C14_Witness ==
    /\ supPc = "done"
    /\ exc = "ValueError"
    /\ cameras # <<>>
    /\ Cardinality(WordPlaces(config[lineNo])) \notin {0, 2}

\* C15: for a config file of camera lines with unique names, blank lines and comment
\* lines, the read does not fail, and when main first waits it has launched one
\* recorder per camera line, with that line's name and url, one disk monitor and one
\* folder monitor, each once.
C15_ValidConfigStartsAll ==
    ((\A i \in 1..Len(config) :
          CameraLine(config[i]) \/ CommentLine(config[i]) \/ BlankLine(config[i]))
     /\ UniqueNames(config))
        => /\ exc # "ValueError"
           /\ supPc = "wait" =>
                /\ LaunchedKinds =
                      { <<"monitor_disk_space", NoArg, NoArg>>,
                        <<"monitor_folders", NoArg, NoArg>> }
                      \cup { <<"record_stream", WordAt(config[i], 1), WordAt(config[i], 2)>> :
                                i \in CameraLines(config) }
                /\ Cardinality(DOMAIN procs) = Cardinality(CameraLines(config)) + 2

(***************************************************************************)
(* Properties of the folder monitor (SpecFolders)                          *)
(***************************************************************************)
\* C17: a tick leaves the directory of the current date in place; from 23:55 to
\* 23:59 it also leaves the directory of the next date; it creates nothing else,
\* changes nothing when the directories exist, and goes on to its sleep.
C17_FoldersCreated ==
    [][(rollerPc = "run" /\ rollerPc' # "run")
          => /\ rollerPc' = "sleep"
             /\ dirs' = dirs \cup {DateText(clock.day)}
                    \cup (IF clock.hour = 23 /\ clock.minute >= 55
                          THEN {DateText(clock.day + 1)}
                          ELSE {})]_vars

\* C17 witness: after a tick at 23:55 of a day past the first, the directory of the
\* next day, which did not exist at the start, exists.
C17_Witness ==
    /\ rollerPc = "sleep"
    /\ clock.hour = 23
    /\ clock.minute = 55
    /\ clock.day >= 1
    /\ {DateText(clock.day), DateText(clock.day + 1)} \subseteq dirs

(***************************************************************************)
(* Properties of the recorder (SpecRec)                                    *)
(***************************************************************************)
\* C16: a recorder that got SIGTERM or SIGINT and has an encoder child has sent it
\* SIGINT once it has ended, and has not ended while the child is running.
C16_CancelWaitsForChild ==
    \A c \in DiskCams :
        (rec[c].cancelled /\ rec[c].pc = "done" /\ rec[c].child # "none")
            => (rec[c].sent /\ rec[c].child = "exited")

(***************************************************************************)
(* Properties of the supervisor's restarts (Spec)                          *)
(***************************************************************************)
\* C18: when wait has reported several sentinels at once and the first of them is
\* handled by a restart, the others of that wake-up keep their entries in processes,
\* so that each is restarted under its own identity.
C18_BatchRestartedEach ==
    [][\A s \in DOMAIN processes :
          (Handles(s) /\ InLoop')
              => \A i \in 2..Len(batch) :
                     /\ batch[i] \in DOMAIN processes'
                     /\ processes'[batch[i]] = processes[batch[i]]]_vars

\* C19: no camera has more than one ffmpeg process running.
C19_OneEncoderPerCamera ==
    \A n \in DOMAIN encoders : encoders[n] <= 1

\* C20: the step that handles the exit of a record_stream worker starts one more
\* record_stream worker of that camera, and the step that handles the exit of a disk
\* monitor or folder monitor worker starts no record_stream worker.
C20_IdentityGivesKind ==
    [][\A s \in DOMAIN processes :
          (Handles(s) /\ InLoop' /\ ~procs[s].alive)
              => IF procs[s].target = "record_stream"
                 THEN Cardinality(LiveOf(procs', KindOf(procs[s])))
                          = Cardinality(LiveOf(procs, KindOf(procs[s]))) + 1
                 ELSE \A t \in DOMAIN procs' :
                          (procs'[t].alive /\ procs'[t].target = "record_stream")
                              => (t \in DOMAIN procs /\ procs[t] = procs'[t])]_vars

====
